---- MODULE Spec2Model ----
(***************************************************************************)
(* PiTools: the LinkedIn posting tools, the Instagram image tool and the   *)
(* DuckDuckGo search tool, each one invocation of an exported async tool   *)
(* function.  An invocation is a sequence of steps separated by awaits;    *)
(* every await on the outside world (an HTTP round trip, a file read or    *)
(* stat) is one action whose outcome the environment chooses.              *)
(*                                                                         *)
(* Strings built by concatenation are sequences of their parts, so that    *)
(* "the message contains the status" is a statement about the parts.       *)
(* A missing JavaScript value (undefined / null header) is Undef.          *)
(***************************************************************************)
EXTENDS Integers, Sequences, FiniteSets, TLC

VARIABLES env, tool, input, pc, loc, calls, fsops, envReads, result

vars == <<env, tool, input, pc, loc, calls, fsops, envReads, result>>

\* ---------------------------------------------------------------- bounds

\* Longest pollOptions array an input carries (the schema allows 2..4).
MaxOptions == 5
\* Most results the search provider returns.
MaxResults == 3

\* ---------------------------------------------------------------- values

Undef == "<undefined>"

Invocations == {1, 2}

LinkedInTools == {"text", "article", "image", "video", "poll"}
MediaTools == {"image", "video"}
Tools == LinkedInTools \cup {"instagram", "search"}

\* HTTP statuses the providers answer with.
Statuses == {200, 201, 202, 401, 500}

\* Number-to-string conversion ('' + response.status, path.join('.')).
NumStr(n) ==
  CASE n = 0 -> "0" [] n = 1 -> "1" [] n = 2 -> "2" [] n = 3 -> "3"
    [] n = 4 -> "4" [] n = 5 -> "5" [] n = 6 -> "6" [] n = 7 -> "7"
    [] n = 8 -> "8" [] n = 9 -> "9"
    [] n = 200 -> "200" [] n = 201 -> "201" [] n = 202 -> "202"
    [] n = 204 -> "204" [] n = 401 -> "401" [] n = 500 -> "500"
    [] OTHER -> "NaN"

\* response.statusText
StatusText(n) ==
  CASE n = 200 -> "OK" [] n = 201 -> "Created" [] n = 202 -> "Accepted"
    [] n = 401 -> "Unauthorized" [] n = 500 -> "Internal Server Error"
    [] OTHER -> ""

\* JavaScript truthiness of a string-or-undefined value.
Truthy(s) == s # Undef /\ s # ""

Contains(msg, tok) == \E k \in DOMAIN msg : msg[k] = tok

\* ------------------------------------------------------------- responses

\* A completed round trip, or a rejected fetch (kind "error", body = error.message).
Response(s, ct, b, id) ==
  [kind |-> "response", status |-> s, ctype |-> ct, body |-> b, restliId |-> id]
NetworkError ==
  [kind |-> "error", status |-> 0, ctype |-> Undef, body |-> "fetch failed", restliId |-> Undef]

\* Every answer counts as OK, whatever its status.
ResponseOkAlways(r) == TRUE

\* response.ok
ResponseOk(r) == r.status >= 200 /\ r.status <= 299

\* ------------------------------------------------------------ validation

\* new URL(s) succeeds (zod's z.string().url()).
IsUrl(s) == s \in {"https://example.com/post", "https://example.com/pic.jpg"}

Issue(path, message) == [path |-> path, message |-> message]

\* z.string().min(1, { message })
StringMin1(field, value, message) ==
  IF value = Undef THEN <<Issue(<<field>>, "Required")>>
  ELSE IF value = "" THEN <<Issue(<<field>>, message)>>
  ELSE <<>>

\* z.string().url({ message })
StringUrl(field, value, message) ==
  IF value = Undef THEN <<Issue(<<field>>, "Required")>>
  ELSE IF ~IsUrl(value) THEN <<Issue(<<field>>, message)>>
  ELSE <<>>

\* An optional string that, when present, must be non-empty.
StringOptionalNonEmpty(field, value) ==
  IF value = "" THEN <<Issue(<<field>>, "Commentary text cannot be empty.")>> ELSE <<>>

\* z.string().optional(): undefined and every string pass.
StringOptional(field, value) == <<>>

\* The elements of z.array(z.string().min(1)): one issue per empty element,
\* its path the 0-based index.
RECURSIVE ElementIssues(_, _)
ElementIssues(opts, k) ==
  IF k > Len(opts) THEN <<>>
  ELSE (IF opts[k] = ""
        THEN <<Issue(<<"pollOptions", NumStr(k - 1)>>, "String must contain at least 1 character(s)")>>
        ELSE <<>>) \o ElementIssues(opts, k + 1)

\* The upper limit on the number of options is off by one (max 5).
PollOptionsIssuesMaxFive(opts) ==
  (IF Len(opts) < 2 THEN <<Issue(<<"pollOptions">>, "Poll must have at least 2 options.")>>
   ELSE <<>>)
  \o (IF Len(opts) > 5 THEN <<Issue(<<"pollOptions">>, "Poll must have at most 4 options.")>>
      ELSE <<>>)
  \o ElementIssues(opts, 1)

\* z.array(...).min(2, ...).max(4, ...): the length issues come before the elements'.
PollOptionsIssues(opts) ==
  (IF Len(opts) < 2 THEN <<Issue(<<"pollOptions">>, "Poll must have at least 2 options.")>>
   ELSE <<>>)
  \o (IF Len(opts) > 4 THEN <<Issue(<<"pollOptions">>, "Poll must have at most 4 options.")>>
      ELSE <<>>)
  \o ElementIssues(opts, 1)

linkedInTextPostInputSchema(in) ==
  StringMin1("commentary", in.commentary, "Commentary text cannot be empty.")

linkedInArticlePostInputSchema(in) ==
  StringMin1("commentary", in.commentary, "Commentary text cannot be empty.")
  \o StringUrl("url", in.url, "Invalid URL provided for article.")
  \o StringMin1("title", in.title, "Article title cannot be empty.")

linkedInImagePostInputSchema(in) ==
  StringMin1("commentary", in.commentary, "Commentary text cannot be empty.")
  \o StringMin1("filePath", in.filePath, "Image file path cannot be empty.")

linkedInVideoPostInputSchema(in) ==
  StringMin1("commentary", in.commentary, "Commentary text cannot be empty.")
  \o StringMin1("filePath", in.filePath, "Video file path cannot be empty.")

linkedInPollPostInputSchema(in) ==
  StringOptional("commentary", in.commentary)
  \o StringMin1("pollQuestion", in.pollQuestion, "Poll question cannot be empty.")
  \o PollOptionsIssues(in.pollOptions)

\* schema.safeParse(rawInputs): the issues, none on success.
SafeParse(t, in) ==
  CASE t = "text" -> linkedInTextPostInputSchema(in)
    [] t = "article" -> linkedInArticlePostInputSchema(in)
    [] t = "image" -> linkedInImagePostInputSchema(in)
    [] t = "video" -> linkedInVideoPostInputSchema(in)
    [] t = "poll" -> linkedInPollPostInputSchema(in)
    [] OTHER -> <<>>

\* e.path.join('.')
RECURSIVE PathJoin(_)
PathJoin(path) ==
  IF Len(path) = 0 THEN <<>>
  ELSE IF Len(path) = 1 THEN <<path[1]>>
  ELSE <<path[1], ".">> \o PathJoin(Tail(path))

\* errors.map(e => e.path.join('.') + ': ' + e.message).join(', ')
RECURSIVE ErrorMessages(_)
ErrorMessages(issues) ==
  IF Len(issues) = 0 THEN <<>>
  ELSE PathJoin(issues[1].path) \o <<": ", issues[1].message>>
       \o (IF Len(issues) > 1 THEN <<", ">> \o ErrorMessages(Tail(issues)) ELSE <<>>)

\* -------------------------------------------------------------- envelopes

NoResult == [isError |-> FALSE, text |-> <<>>, postId |-> Undef]

\* An McpToolResponse; isError absent counts as false.
Envelope(isError, text, postId) == [isError |-> isError, text |-> text, postId |-> postId]

\* The internal helpers' { success, message, postId }.
Internal(success, message, postId) == [success |-> success, message |-> message, postId |-> postId]

\* { content: [{ text: result.message }], isError: !result.success, postId: result.postId }
FromInternal(r) == Envelope(~r.success, r.message, r.postId)

\* The tool function lets the error escape.
ToolCatchRethrows(message) == [pc |-> "threw", result |-> NoResult]

\* The tool function's own catch: 'An error occurred: ' + error.message
ToolCatch(message) ==
  [pc |-> "done", result |-> Envelope(TRUE, <<"An error occurred: ">> \o message, Undef)]

\* The tool function's return of an internal helper's result.
ToolReturn(r) == [pc |-> "done", result |-> FromInternal(r)]

\* -------------------------------------------------------------------- inputs

Commentaries == {Undef, "", "Hello"}
OptionTexts == {"", "A", "B"}
PollOptionLists == UNION {[1..n -> OptionTexts] : n \in 0..MaxOptions}

TextInputs == [commentary : Commentaries]
ArticleInputs ==
  [commentary : Commentaries, url : {Undef, "not a url", "https://example.com/post"},
   title : {"", "Title"}]
MediaInputs == [commentary : Commentaries, filePath : {Undef, "", "/tmp/media.bin"}]
PollInputs ==
  [commentary : Commentaries, pollQuestion : {"", "Pick one"}, pollOptions : PollOptionLists]
InstagramInputs ==
  [imageUrl : {"not a url", "https://example.com/pic.jpg"}, caption : {Undef, "Nice"}]
\* options.maxResults is read only when hasMax (a number was given).
SearchInputs ==
  {[query |-> "tla", hasMax |-> FALSE, maxResults |-> 0]}
  \cup [query : {"tla"}, hasMax : {TRUE}, maxResults : 0..(MaxResults + 1)]

InputsOf(t) ==
  CASE t = "text" -> TextInputs
    [] t = "article" -> ArticleInputs
    [] t \in MediaTools -> MediaInputs
    [] t = "poll" -> PollInputs
    [] t = "instagram" -> InstagramInputs
    [] OTHER -> SearchInputs

Tokens == {Undef, "", "token"}

\* process.env as the tool sees it; variables the tool never reads are unset.
EnvsOf(t) ==
  IF t \in LinkedInTools
  THEN [LINKEDIN_ACCESS_TOKEN : Tokens, INSTAGRAM_ACCESS_TOKEN : {Undef},
        INSTAGRAM_USER_ID_FOR_POSTING : {Undef}]
  ELSE IF t = "instagram"
  THEN [LINKEDIN_ACCESS_TOKEN : {Undef}, INSTAGRAM_ACCESS_TOKEN : Tokens,
        INSTAGRAM_USER_ID_FOR_POSTING : {Undef, "", "1784"}]
  ELSE [LINKEDIN_ACCESS_TOKEN : {Undef}, INSTAGRAM_ACCESS_TOKEN : {Undef},
        INSTAGRAM_USER_ID_FOR_POSTING : {Undef}]

NoLocals ==
  [accessToken |-> Undef, authorUrn |-> <<>>, uploadUrl |-> Undef, mediaUrn |-> Undef,
   creationId |-> Undef]

\* ------------------------------------------------------ provider responses

\* JSON.parse / response.json() succeeds on these raw bodies.
JsonBodies ==
  {"{sub:u1}", "{name:N}", "{}", "{value:{}}",
   "{value:{uploadUrl:U,image:M}}", "{value:{uploadUrl:U}}", "{value:{image:M}}",
   "{value:{uploadInstructions:[{uploadUrl:U}],video:M}}",
   "{value:{uploadInstructions:[{uploadUrl:U}]}}",
   "{value:{uploadInstructions:[],video:M}}", "{value:{video:M}}",
   "{value:{uploadUrl:U2,image:M2}}",
   "{value:{uploadInstructions:[{uploadUrl:U2}],video:M2}}",
   "{id:c1}", "{id:c2}", "{id:}", "{id:p1}", "{error:{message:bad token}}"}

JsonParses(b) == b \in JsonBodies

\* userInfo.sub of a parsed /v2/userinfo body
SubOf(b) == IF b = "{sub:u1}" THEN "u1" ELSE Undef

\* Object.keys(userInfo).join(', ')
KeysOf(b) == CASE b = "{sub:u1}" -> "sub" [] b = "{name:N}" -> "name" [] OTHER -> ""

\* initData.value is an object
HasValue(b) ==
  b \in {"{value:{}}", "{value:{uploadUrl:U,image:M}}", "{value:{uploadUrl:U}}",
         "{value:{image:M}}", "{value:{uploadInstructions:[{uploadUrl:U}],video:M}}",
         "{value:{uploadInstructions:[{uploadUrl:U}]}}",
         "{value:{uploadInstructions:[],video:M}}", "{value:{video:M}}",
         "{value:{uploadUrl:U2,image:M2}}",
         "{value:{uploadInstructions:[{uploadUrl:U2}],video:M2}}"}

\* initData.value.uploadUrl (image)
ImageUploadUrlOf(b) ==
  IF b \in {"{value:{uploadUrl:U,image:M}}", "{value:{uploadUrl:U}}"}
  THEN "https://upload.example/U"
  ELSE IF b = "{value:{uploadUrl:U2,image:M2}}" THEN "https://upload.example/U2"
  ELSE Undef

\* initData.value.image
ImageUrnOf(b) ==
  IF b \in {"{value:{uploadUrl:U,image:M}}", "{value:{image:M}}"}
  THEN "urn:li:image:M"
  ELSE IF b = "{value:{uploadUrl:U2,image:M2}}" THEN "urn:li:image:M2"
  ELSE Undef

\* initData.value.uploadInstructions?.[0]?.uploadUrl (video)
VideoUploadUrlOf(b) ==
  IF b \in {"{value:{uploadInstructions:[{uploadUrl:U}],video:M}}",
            "{value:{uploadInstructions:[{uploadUrl:U}]}}"}
  THEN "https://upload.example/U"
  ELSE IF b = "{value:{uploadInstructions:[{uploadUrl:U2}],video:M2}}"
  THEN "https://upload.example/U2"
  ELSE Undef

\* initData.value.video
VideoUrnOf(b) ==
  IF b \in {"{value:{uploadInstructions:[{uploadUrl:U}],video:M}}",
            "{value:{uploadInstructions:[],video:M}}", "{value:{video:M}}"}
  THEN "urn:li:video:M"
  ELSE IF b = "{value:{uploadInstructions:[{uploadUrl:U2}],video:M2}}"
  THEN "urn:li:video:M2"
  ELSE Undef

\* containerData.id / publishData.id
IdOf(b) ==
  CASE b = "{id:c1}" -> "c1" [] b = "{id:c2}" -> "c2" [] b = "{id:}" -> ""
    [] b = "{id:p1}" -> "p1" [] OTHER -> Undef

\* data?.error?.message
ErrorMessageOf(b) == IF b = "{error:{message:bad token}}" THEN "bad token" ELSE Undef

\* contentType.includes("application/json")
IncludesJson(ct) == ct = "application/json; charset=utf-8"

UserInfoResponses ==
  {Response(s, ct, b, Undef) :
     s \in Statuses, ct \in {"application/json; charset=utf-8", "text/html", Undef},
     b \in {"{sub:u1}", "{name:N}", "denied"}}
  \cup {NetworkError}

ImageInitBodies ==
  {"{value:{uploadUrl:U,image:M}}", "{value:{uploadUrl:U}}", "{value:{image:M}}",
   "{value:{}}", "{}", "denied"}

VideoInitBodies ==
  {"{value:{uploadInstructions:[{uploadUrl:U}],video:M}}",
   "{value:{uploadInstructions:[{uploadUrl:U}]}}",
   "{value:{uploadInstructions:[],video:M}}", "{value:{video:M}}", "{}", "denied"}

InitResponses(t) ==
  {Response(s, "application/json; charset=utf-8", b, Undef) :
     s \in Statuses, b \in (IF t = "image" THEN ImageInitBodies ELSE VideoInitBodies)}
  \cup {NetworkError}

UploadResponses ==
  {Response(s, Undef, "upload body", Undef) : s \in Statuses} \cup {NetworkError}

PostResponses ==
  {Response(s, "application/json; charset=utf-8", "post body", id) :
     s \in Statuses, id \in {Undef, "", "ABC123"}}
  \cup {NetworkError}

\* ----------------------------------------------------------------- requests

Call(ep, target, req, resp) == [ep |-> ep, target |-> target, req |-> req, resp |-> resp]

UserInfoUrl == "https://api.linkedin.com/v2/userinfo"
PostApiUrl == "https://api.linkedin.com/rest/posts"
InitializeUploadUrl(t) ==
  IF t = "image" THEN "https://api.linkedin.com/rest/images?action=initializeUpload"
  ELSE "https://api.linkedin.com/rest/videos?action=initializeUpload"

\* The poll block lists the options in reverse order.
ContentOfReversed(t, in, l) ==
  CASE t = "text" -> [kind |-> "none"]
    [] t = "article" -> [kind |-> "article", source |-> in.url, title |-> in.title]
    [] t \in MediaTools -> [kind |-> "media", id |-> l.mediaUrn]
    [] OTHER ->
         [kind |-> "poll", question |-> in.pollQuestion,
          options |-> [k \in DOMAIN in.pollOptions |->
                         [text |-> in.pollOptions[Len(in.pollOptions) + 1 - k]]],
          duration |-> "THREE_DAYS"]

\* The content block of the create-post body, by kind.
ContentOf(t, in, l) ==
  CASE t = "text" -> [kind |-> "none"]
    [] t = "article" -> [kind |-> "article", source |-> in.url, title |-> in.title]
    [] t \in MediaTools -> [kind |-> "media", id |-> l.mediaUrn]
    [] OTHER ->
         [kind |-> "poll", question |-> in.pollQuestion,
          options |-> [k \in DOMAIN in.pollOptions |-> [text |-> in.pollOptions[k]]],
          duration |-> "THREE_DAYS"]

\* The create-post body; a poll's commentary is commentaryText || ''.
PostBody(t, in, l) ==
  [author |-> l.authorUrn,
   commentary |-> IF t = "poll" /\ ~Truthy(in.commentary) THEN "" ELSE in.commentary,
   visibility |-> "PUBLIC", feedDistribution |-> "MAIN_FEED",
   content |-> ContentOf(t, in, l),
   lifecycleState |-> "PUBLISHED", isReshareDisabledByAuthor |-> FALSE]

\* ------------------------------------------------ LinkedIn internal helpers

\* The token is not checked.
TokenMissingNever(token) == FALSE

\* !accessToken
TokenMissing(token) == ~Truthy(token)

\* The parse result is not checked.
ValidationFailedNever(issues) == FALSE

\* !parseResult.success
ValidationFailed(issues) == Len(issues) > 0

\* Neither the status nor the content type of the user-info answer is looked at.
UserInfoRejectedNever(r) == FALSE

\* !response.ok || !contentType || !contentType.includes("application/json")
UserInfoRejected(r) == ~ResponseOk(r) \/ r.ctype = Undef \/ ~IncludesJson(r.ctype)

\* Every throw inside getLinkedInUserInfoInternal's try is caught there and rethrown.
UserInfoFailure(message) ==
  [ok |-> FALSE, urn |-> Undef,
   message |-> <<"Failed to fetch LinkedIn user information: ">> \o message]

getLinkedInUserInfoInternal(r) ==
  IF r.kind = "error" THEN UserInfoFailure(<<r.body>>)
  ELSE IF UserInfoRejected(r)
  THEN UserInfoFailure(
         <<"User info fetch failed (", UserInfoUrl, ") - Status: ", NumStr(r.status),
           ". Content-Type: ", (IF Truthy(r.ctype) THEN r.ctype ELSE "N/A"),
           ". Body: ", r.body>>)
  ELSE IF ~JsonParses(r.body) THEN UserInfoFailure(<<"Unexpected token in JSON">>)
  ELSE IF ~Truthy(SubOf(r.body))
  THEN UserInfoFailure(
         <<"User URN ('sub' field) not found in /v2/userinfo response. Received keys: ",
           KeysOf(r.body)>>)
  ELSE [ok |-> TRUE, urn |-> SubOf(r.body), message |-> <<>>]

\* The prefix each internal helper's catch puts before error.message.
CatchPrefix(t) ==
  CASE t = "text" -> "Error posting text: "
    [] t = "article" -> "Error posting article: "
    [] t = "image" -> "Error posting image: "
    [] t = "video" -> "Error posting video: "
    [] OTHER -> "Error posting poll: "

\* The helper's catch reports a fixed text in place of error.message.
CaughtWithoutMessage(t, message) == Internal(FALSE, <<CatchPrefix(t), "Unknown error">>, Undef)

\* The helper's catch: { success: false, message: prefix + error.message }
Caught(t, message) == Internal(FALSE, <<CatchPrefix(t)>> \o message, Undef)

InitFailedLabel(t) ==
  IF t = "image" THEN "Initialize Upload failed " ELSE "Initialize Video Upload failed "

UploadFailedLabel(t) ==
  IF t = "image" THEN "Image Upload failed " ELSE "Video Upload failed "

\* The create-post failure reported under the upload phase's label.
CreateFailedLabelAsUpload(t) ==
  IF t = "image" THEN "Image Upload failed " ELSE "Video Upload failed "

CreateFailedLabel(t) ==
  IF t = "image" THEN "Create Image Post failed " ELSE "Create Video Post failed "

\* The initialize-upload status is not looked at.
InitRejectedNever(r) == FALSE

\* if (!initResponse.ok)
InitRejected(r) == ~ResponseOk(r)

\* The PUT's status is not looked at.
UploadRejectedNever(r) == FALSE

\* The PUT rejected for every status but 200 and 201.
UploadRejectedUnless200Or201(r) == r.status # 201 /\ r.status # 200

\* if (!uploadResponse.ok && uploadResponse.status !== 201 && uploadResponse.status !== 200)
UploadRejected(r) == ~ResponseOk(r) /\ r.status # 201 /\ r.status # 200

\* The create-post answer is never taken as a failure.
PostRejectedNever(r) == FALSE

\* if (!response.ok) after the create-post call
PostRejected(r) == ~ResponseOk(r)

\* What the initialize-upload response leaves in the helper: the upload URL and the
\* media URN, or the error thrown.
InitOutcome(t, r) ==
  LET thrown(m) == [ok |-> FALSE, uploadUrl |-> Undef, mediaUrn |-> Undef, message |-> m]
  IN IF r.kind = "error" THEN thrown(<<r.body>>)
     ELSE IF InitRejected(r)
     THEN thrown(<<InitFailedLabel(t), NumStr(r.status), ": ", r.body>>)
     ELSE IF ~JsonParses(r.body) THEN thrown(<<"Unexpected token in JSON">>)
     ELSE IF ~HasValue(r.body)
     THEN thrown(<<"Cannot read properties of undefined">>)
     ELSE IF t = "video" /\ ~Truthy(VideoUploadUrlOf(r.body))
     THEN thrown(<<"Could not extract uploadUrl from initialize video response.">>)
     ELSE [ok |-> TRUE,
           uploadUrl |-> IF t = "image" THEN ImageUploadUrlOf(r.body)
                         ELSE VideoUploadUrlOf(r.body),
           mediaUrn |-> IF t = "image" THEN ImageUrnOf(r.body) ELSE VideoUrnOf(r.body),
           message |-> <<>>]

\* The header is never read.
PostIdOfNone(r) == Undef

\* headers.get('x-restli-id') || headers.get('X-RestLi-Id'): header names are
\* case-insensitive, both reads give the same value.
PostIdOf(r) == IF Truthy(r.restliId) THEN r.restliId ELSE r.restliId

SuccessLabel(t) ==
  CASE t = "text" -> "Successfully posted text!"
    [] t = "article" -> "Successfully posted article!"
    [] t = "image" -> "Successfully posted image!"
    [] t = "video" -> "Successfully posted video!"
    [] OTHER -> "Successfully posted poll!"

SuccessWithIdLabel(t) ==
  CASE t = "text" -> "Successfully posted text! Post ID: "
    [] t = "article" -> "Successfully posted article! Post ID: "
    [] t = "image" -> "Successfully posted image! Post ID: "
    [] t = "video" -> "Successfully posted video! Post ID: "
    [] OTHER -> "Successfully posted poll! Post ID: "

FailedToPostLabel(t) ==
  CASE t = "text" -> "Failed to post text ("
    [] t = "article" -> "Failed to post article ("
    [] OTHER -> "Failed to post poll ("

\* { success: true, message: successMessage, postId: postId || undefined }
PostSuccess(t, r) ==
  LET postId == PostIdOf(r)
  IN Internal(TRUE,
              IF Truthy(postId) THEN <<SuccessWithIdLabel(t), postId>> ELSE <<SuccessLabel(t)>>,
              IF Truthy(postId) THEN postId ELSE Undef)

\* The internal helper's result once the create-post call has been answered.
PostOutcome(t, r) ==
  IF r.kind = "error" THEN Caught(t, <<r.body>>)
  ELSE IF PostRejected(r)
  THEN (IF t \in MediaTools
        THEN Caught(t, <<CreateFailedLabel(t), NumStr(r.status), ": ", r.body>>)
        ELSE Internal(FALSE, <<FailedToPostLabel(t), NumStr(r.status), "): ", r.body>>, Undef))
  ELSE PostSuccess(t, r)

\* postPollUpdateInternal's own guard on the number of options.
PollOptionsOutOfRange(t, in) ==
  t = "poll" /\ (Len(in.pollOptions) < 2 \/ Len(in.pollOptions) > 4)

\* ---------------------------------------------------------------- initial state

NoInput == [none |-> TRUE]

\* One invocation of one tool is started; the other slot stays idle.
Init ==
  \E t \in Tools : \E in \in InputsOf(t) : \E e \in EnvsOf(t) :
    /\ env = e
    /\ tool = [i \in Invocations |-> IF i = 1 THEN t ELSE "none"]
    /\ input = [i \in Invocations |-> IF i = 1 THEN in ELSE NoInput]
    /\ pc = [i \in Invocations |-> IF i = 1 THEN "start" ELSE "idle"]
    /\ loc = [i \in Invocations |-> NoLocals]
    /\ calls = [i \in Invocations |-> <<>>]
    /\ fsops = [i \in Invocations |-> <<>>]
    /\ envReads = [i \in Invocations |-> <<>>]
    /\ result = [i \in Invocations |-> NoResult]

\* The invocation ends: o is the program point and the envelope returned.
Finish(i, o) ==
  /\ pc' = [pc EXCEPT ![i] = o.pc]
  /\ result' = [result EXCEPT ![i] = o.result]

Goto(i, label) ==
  /\ pc' = [pc EXCEPT ![i] = label]
  /\ UNCHANGED result

Issued(i, c) == calls' = [calls EXCEPT ![i] = Append(@, c)]

\* ------------------------------------------------------------ LinkedIn tools

\* postLinkedInText/Article/Image/Video/Poll up to the first await: safeParse, then
\* getLinkedInAuthDetailsAndUrn's read of the token.
Begin(i) ==
  /\ pc[i] = "start"
  /\ tool[i] \in LinkedInTools
  /\ LET issues == SafeParse(tool[i], input[i])
     IN IF ValidationFailed(issues)
        THEN /\ Finish(i, [pc |-> "done",
                           result |-> Envelope(TRUE, <<"Input validation failed: ">>
                                                      \o ErrorMessages(issues), Undef)])
             /\ UNCHANGED <<envReads, loc>>
        ELSE /\ envReads' = [envReads EXCEPT ![i] = Append(@, "LINKEDIN_ACCESS_TOKEN")]
             /\ IF TokenMissing(env.LINKEDIN_ACCESS_TOKEN)
                THEN /\ Finish(i, ToolCatch(<<"LinkedIn Access Token not configured in environment variables.">>))
                     /\ UNCHANGED loc
                ELSE /\ Goto(i, "userinfo")
                     /\ loc' = [loc EXCEPT ![i].accessToken = env.LINKEDIN_ACCESS_TOKEN]
  /\ UNCHANGED <<env, tool, input, calls, fsops>>

\* getLinkedInUserInfoInternal: GET /v2/userinfo and what follows its answer, the
\* provider answering with one of answers.
GetUserInfoFrom(i, answers) ==
  /\ pc[i] = "userinfo"
  /\ \E r \in answers :
       LET u == getLinkedInUserInfoInternal(r)
       IN /\ Issued(i, Call("userinfo", UserInfoUrl, [bearer |-> loc[i].accessToken], r))
          /\ IF u.ok
             THEN /\ loc' = [loc EXCEPT ![i].authorUrn = <<"urn:li:person:", u.urn>>]
                  /\ Goto(i, CASE tool[i] = "image" -> "init"
                               [] tool[i] = "video" -> "stat"
                               [] OTHER -> "post")
             ELSE /\ Finish(i, ToolCatch(u.message))
                  /\ UNCHANGED loc
  /\ UNCHANGED <<env, tool, input, fsops, envReads>>

GetUserInfo(i) == GetUserInfoFrom(i, UserInfoResponses)

FsError(op, path) == <<"ENOENT: no such file or directory, ", op, " '", path, "'">>

\* postVideoUpdateInternal: stat(videoPath) before the initialize-upload request.
StatFile(i) ==
  /\ pc[i] = "stat"
  /\ \E ok \in BOOLEAN :
       /\ fsops' = [fsops EXCEPT ![i] =
                      Append(@, [op |-> "stat", path |-> input[i].filePath, ok |-> ok])]
       /\ IF ok THEN Goto(i, "init")
          ELSE Finish(i, ToolReturn(Caught(tool[i], FsError("stat", input[i].filePath))))
  /\ UNCHANGED <<env, tool, input, loc, calls, envReads>>

\* postImageUpdateInternal / postVideoUpdateInternal: the initialize-upload request
\* and the extraction of the upload URL and the media URN from its answer.
InitializeUploadFrom(i, answers) ==
  /\ pc[i] = "init"
  /\ \E r \in answers :
       LET o == InitOutcome(tool[i], r)
       IN /\ Issued(i, Call("initializeUpload", InitializeUploadUrl(tool[i]),
                            [owner |-> loc[i].authorUrn], r))
          /\ IF o.ok
             THEN /\ loc' = [loc EXCEPT ![i].uploadUrl = o.uploadUrl,
                                        ![i].mediaUrn = o.mediaUrn]
                  /\ Goto(i, "read")
             ELSE /\ Finish(i, ToolReturn(Caught(tool[i], o.message)))
                  /\ UNCHANGED loc
  /\ UNCHANGED <<env, tool, input, fsops, envReads>>

InitializeUpload(i) == InitializeUploadFrom(i, InitResponses(tool[i]))

\* A failed read is swallowed and the workflow goes on to the byte transfer.
ReadFileIgnoringFailure(i) ==
  /\ pc[i] = "read"
  /\ \E ok \in BOOLEAN :
       /\ fsops' = [fsops EXCEPT ![i] =
                      Append(@, [op |-> "readFile", path |-> input[i].filePath, ok |-> ok])]
       /\ Goto(i, "upload")
  /\ UNCHANGED <<env, tool, input, loc, calls, envReads>>

\* fs.readFile(path)
ReadFile(i) ==
  /\ pc[i] = "read"
  /\ \E ok \in BOOLEAN :
       /\ fsops' = [fsops EXCEPT ![i] =
                      Append(@, [op |-> "readFile", path |-> input[i].filePath, ok |-> ok])]
       /\ IF ok THEN Goto(i, "upload")
          ELSE Finish(i, ToolReturn(Caught(tool[i], FsError("open", input[i].filePath))))
  /\ UNCHANGED <<env, tool, input, loc, calls, envReads>>

\* A rejected byte transfer is tried once more before the helper gives up.
UploadBytesRetriedOnce(i, answers) ==
  /\ pc[i] = "upload"
  /\ IF ~Truthy(loc[i].uploadUrl)
     THEN /\ Finish(i, ToolReturn(Caught(tool[i], <<"Failed to parse URL from ", "undefined">>)))
          /\ UNCHANGED calls
     ELSE \E r \in answers :
            /\ Issued(i, Call("upload", loc[i].uploadUrl, [method |-> "PUT"], r))
            /\ IF r.kind = "error"
               THEN Finish(i, ToolReturn(Caught(tool[i], <<r.body>>)))
               ELSE IF UploadRejected(r)
               THEN (IF \E k \in DOMAIN calls[i] : calls[i][k].ep = "upload"
                     THEN Finish(i, ToolReturn(Caught(tool[i],
                            <<UploadFailedLabel(tool[i]), NumStr(r.status), ": ", r.body>>)))
                     ELSE Goto(i, "upload"))
               ELSE Goto(i, "post")
  /\ UNCHANGED <<env, tool, input, loc, fsops, envReads>>

\* The upload URL is kept in one place shared by all invocations: the bytes go to
\* the URL another invocation has obtained, when there is one.
UploadBytesSharedUrl(i, answers) ==
  LET others == {j \in Invocations \ {i} : Truthy(loc[j].uploadUrl)}
      uploadUrl == IF others = {} THEN loc[i].uploadUrl
                   ELSE loc[CHOOSE j \in others : TRUE].uploadUrl
  IN /\ pc[i] = "upload"
     /\ IF ~Truthy(uploadUrl)
        THEN /\ Finish(i, ToolReturn(Caught(tool[i], <<"Failed to parse URL from ", "undefined">>)))
             /\ UNCHANGED calls
        ELSE \E r \in answers :
               /\ Issued(i, Call("upload", uploadUrl, [method |-> "PUT"], r))
               /\ IF r.kind = "error"
                  THEN Finish(i, ToolReturn(Caught(tool[i], <<r.body>>)))
                  ELSE IF UploadRejected(r)
                  THEN Finish(i, ToolReturn(Caught(tool[i],
                         <<UploadFailedLabel(tool[i]), NumStr(r.status), ": ", r.body>>)))
                  ELSE Goto(i, "post")
     /\ UNCHANGED <<env, tool, input, loc, fsops, envReads>>

\* fetch(uploadUrl, { method: 'PUT', body }): with uploadUrl undefined fetch rejects
\* before any request leaves (the URL does not parse).
UploadBytesFrom(i, answers) ==
  /\ pc[i] = "upload"
  /\ IF ~Truthy(loc[i].uploadUrl)
     THEN /\ Finish(i, ToolReturn(Caught(tool[i], <<"Failed to parse URL from ", "undefined">>)))
          /\ UNCHANGED calls
     ELSE \E r \in answers :
            /\ Issued(i, Call("upload", loc[i].uploadUrl, [method |-> "PUT"], r))
            /\ IF r.kind = "error"
               THEN Finish(i, ToolReturn(Caught(tool[i], <<r.body>>)))
               ELSE IF UploadRejected(r)
               THEN Finish(i, ToolReturn(Caught(tool[i],
                      <<UploadFailedLabel(tool[i]), NumStr(r.status), ": ", r.body>>)))
               ELSE Goto(i, "post")
  /\ UNCHANGED <<env, tool, input, loc, fsops, envReads>>

UploadBytes(i) == UploadBytesFrom(i, UploadResponses)

\* Requests are deduplicated: when another invocation of the same tool with an equal
\* input has already succeeded, its result is returned and no request is issued.
CreatePostDeduplicated(i, answers) ==
  LET earlier == {j \in Invocations \ {i} :
                    /\ tool[j] = tool[i] /\ input[j] = input[i]
                    /\ pc[j] = "done" /\ ~result[j].isError}
  IN /\ pc[i] = "post"
     /\ IF earlier # {}
        THEN /\ Finish(i, [pc |-> "done", result |-> result[CHOOSE j \in earlier : TRUE]])
             /\ UNCHANGED calls
        ELSE IF PollOptionsOutOfRange(tool[i], input[i])
        THEN /\ Finish(i, ToolReturn(Internal(FALSE,
                    <<"Error: Polls must have between 2 and 4 options.">>, Undef)))
             /\ UNCHANGED calls
        ELSE \E r \in answers :
               /\ Issued(i, Call("posts", PostApiUrl, PostBody(tool[i], input[i], loc[i]), r))
               /\ Finish(i, ToolReturn(PostOutcome(tool[i], r)))
     /\ UNCHANGED <<env, tool, input, loc, fsops, envReads>>

\* The create-post request, POST /rest/posts, of every LinkedIn helper, and the
\* tool function's return of the helper's result.
CreatePostFrom(i, answers) ==
  /\ pc[i] = "post"
  /\ IF PollOptionsOutOfRange(tool[i], input[i])
     THEN /\ Finish(i, ToolReturn(Internal(FALSE,
                 <<"Error: Polls must have between 2 and 4 options.">>, Undef)))
          /\ UNCHANGED calls
     ELSE \E r \in answers :
            /\ Issued(i, Call("posts", PostApiUrl, PostBody(tool[i], input[i], loc[i]), r))
            /\ Finish(i, ToolReturn(PostOutcome(tool[i], r)))
  /\ UNCHANGED <<env, tool, input, loc, fsops, envReads>>

CreatePost(i) == CreatePostFrom(i, PostResponses)

\* ------------------------------------------------------------ Instagram tool

IgBodies(okBody) == {okBody, "{}", "{id:}", "{error:{message:bad token}}", "<html>"}

IgResponses(okBody) ==
  {Response(s, "application/json; charset=utf-8", b, Undef) :
     s \in Statuses, b \in IgBodies(okBody)}
  \cup {NetworkError}

\* The catch around both Instagram requests.
IgCaught(message) ==
  [pc |-> "done",
   result |-> Envelope(TRUE, <<"Error: ", IF Truthy(message) THEN message
                                          ELSE "An unexpected error occurred.">>, Undef)]

IgError(text) == [pc |-> "done", result |-> Envelope(TRUE, text, Undef)]

\* data?.error?.message || response.statusText || fallback
IgErrorMessage(r, fallback) ==
  IF Truthy(ErrorMessageOf(r.body)) THEN ErrorMessageOf(r.body)
  ELSE IF Truthy(StatusText(r.status)) THEN StatusText(r.status)
  ELSE fallback

\* postInstagramImage up to its first await: both environment reads and checks.
IgBegin(i) ==
  /\ pc[i] = "start"
  /\ tool[i] = "instagram"
  /\ envReads' = [envReads EXCEPT ![i] =
                    @ \o <<"INSTAGRAM_ACCESS_TOKEN", "INSTAGRAM_USER_ID_FOR_POSTING">>]
  /\ IF TokenMissing(env.INSTAGRAM_ACCESS_TOKEN)
     THEN /\ Finish(i, IgError(<<"Error: INSTAGRAM_ACCESS_TOKEN is not set in environment variables.">>))
          /\ UNCHANGED loc
     ELSE IF ~Truthy(env.INSTAGRAM_USER_ID_FOR_POSTING)
     THEN /\ Finish(i, IgError(<<"Error: INSTAGRAM_USER_ID_FOR_POSTING is not set in environment variables.">>))
          /\ UNCHANGED loc
     ELSE /\ Goto(i, "ig_container")
          /\ loc' = [loc EXCEPT ![i].accessToken = env.INSTAGRAM_ACCESS_TOKEN]
  /\ UNCHANGED <<env, tool, input, calls, fsops>>

\* Step 1: POST /{user}/media and the reading of its answer.
IgCreateContainer(i) ==
  /\ pc[i] = "ig_container"
  /\ \E r \in IgResponses("{id:c1}") \cup IgResponses("{id:c2}") :
       /\ Issued(i, Call("ig_media",
                         <<"https://graph.instagram.com/", env.INSTAGRAM_USER_ID_FOR_POSTING, "/media">>,
                         [image_url |-> input[i].imageUrl, access_token |-> loc[i].accessToken,
                          caption |-> IF Truthy(input[i].caption) THEN input[i].caption ELSE Undef],
                         r))
       /\ IF r.kind = "error"
          THEN Finish(i, IgCaught(r.body)) /\ UNCHANGED loc
          ELSE IF ~JsonParses(r.body)
          THEN /\ Finish(i, IgError(
                    <<"Error: Failed to parse JSON from create media container response. Status: ",
                      NumStr(r.status), ". Response: ", r.body>>))
               /\ UNCHANGED loc
          ELSE IF ~ResponseOk(r)
          THEN /\ Finish(i, IgError(<<"Error: Failed to create media container: ",
                                      IgErrorMessage(r, "Unknown error creating container")>>))
               /\ UNCHANGED loc
          ELSE IF ~Truthy(IdOf(r.body))
          THEN /\ Finish(i, IgError(<<"Error: Failed to get creation ID from media container response.">>))
               /\ UNCHANGED loc
          ELSE /\ loc' = [loc EXCEPT ![i].creationId = IdOf(r.body)]
               /\ Goto(i, "ig_wait")
  /\ UNCHANGED <<env, tool, input, fsops, envReads>>

\* await new Promise(resolve => setTimeout(resolve, 7000))
IgWait(i) ==
  /\ pc[i] = "ig_wait"
  /\ Goto(i, "ig_publish")
  /\ UNCHANGED <<env, tool, input, loc, calls, fsops, envReads>>

\* Step 2: POST /{user}/media_publish and the reading of its answer.
IgPublish(i) ==
  /\ pc[i] = "ig_publish"
  /\ \E r \in IgResponses("{id:p1}") :
       /\ Issued(i, Call("ig_media_publish",
                         <<"https://graph.instagram.com/", env.INSTAGRAM_USER_ID_FOR_POSTING, "/media_publish">>,
                         [creation_id |-> loc[i].creationId, access_token |-> loc[i].accessToken],
                         r))
       /\ IF r.kind = "error"
          THEN Finish(i, IgCaught(r.body))
          ELSE IF ~JsonParses(r.body)
          THEN Finish(i, IgError(
                 <<"Error: Failed to parse JSON from publish media container response. Status: ",
                   NumStr(r.status), ". Response: ", r.body>>))
          ELSE IF ~ResponseOk(r)
          THEN Finish(i, IgError(<<"Error: Failed to publish media container: ",
                                   IgErrorMessage(r, "Unknown error publishing")>>))
          ELSE Finish(i, [pc |-> "done",
                          result |-> Envelope(FALSE,
                            <<"Successfully posted image to Instagram. Post ID: ",
                              IF IdOf(r.body) = Undef THEN "undefined" ELSE IdOf(r.body)>>,
                            Undef)])
  /\ UNCHANGED <<env, tool, input, loc, fsops, envReads>>

\* --------------------------------------------------------------- search tool

\* The k-th result of the provider's list.
SearchResult(k) ==
  [title |-> <<"title", NumStr(k)>>, url |-> <<"url", NumStr(k)>>,
   description |-> <<"snippet", NumStr(k)>>]

\* What duckDuckGoSearch resolves to, or its rejection.
SearchAnswers ==
  {[kind |-> "response", status |-> 200, noResults |-> nr,
    results |-> [k \in 1..n |-> SearchResult(k)], body |-> ""] :
     nr \in BOOLEAN, n \in 0..MaxResults}
  \cup {[kind |-> "error", status |-> 0, noResults |-> FALSE, results |-> <<>>,
         body |-> "search failed"]}

\* options?.maxResults && results.length > options.maxResults ? slice(0, maxResults)
ResultsToReturn(in, results) ==
  IF in.hasMax /\ in.maxResults # 0 /\ Len(results) > in.maxResults
  THEN SubSeq(results, 1, in.maxResults)
  ELSE results

\* resultsToReturn.map((result, index) => `Result ${index + 1}:...`).join("\n\n")
RECURSIVE FormattedResults(_, _)
FormattedResults(results, k) ==
  IF k > Len(results) THEN <<>>
  ELSE <<"Result ", NumStr(k), ":\nTitle: ">> \o results[k].title
       \o <<"\nURL: ">> \o results[k].url
       \o <<"\nSnippet: ">> \o results[k].description
       \o (IF k < Len(results) THEN <<"\n\n">> ELSE <<>>)
       \o FormattedResults(results, k + 1)

\* performDuckDuckGoSearch
Search(i) ==
  /\ pc[i] = "start"
  /\ tool[i] = "search"
  /\ \E a \in SearchAnswers :
       /\ Issued(i, Call("ddg", "duckduckgo", [query |-> input[i].query], a))
       /\ IF a.kind = "error"
          THEN Finish(i, [pc |-> "done",
                          result |-> Envelope(TRUE, <<"Error performing search: ", a.body>>, Undef)])
          ELSE IF a.noResults
          THEN Finish(i, [pc |-> "done",
                          result |-> Envelope(FALSE, <<"No results found for your query.">>, Undef)])
          ELSE LET formatted == FormattedResults(ResultsToReturn(input[i], a.results), 1)
               IN Finish(i, [pc |-> "done",
                             result |-> Envelope(FALSE,
                               IF formatted = <<>>
                               THEN <<"No results formatted, something went wrong.">>
                               ELSE formatted, Undef)])
  /\ UNCHANGED <<env, tool, input, loc, fsops, envReads>>

Next ==
  \E i \in Invocations :
    \/ Begin(i)
    \/ GetUserInfo(i)
    \/ StatFile(i)
    \/ InitializeUpload(i)
    \/ ReadFile(i)
    \/ UploadBytes(i)
    \/ CreatePost(i)
    \/ IgBegin(i)
    \/ IgCreateContainer(i)
    \/ IgWait(i)
    \/ IgPublish(i)
    \/ Search(i)

Spec == Init /\ [][Next]_vars

\* One step of invocation i: its run from one await to the next.
InvocationStep(i) ==
  \/ Begin(i)
  \/ GetUserInfo(i)
  \/ StatFile(i)
  \/ InitializeUpload(i)
  \/ ReadFile(i)
  \/ UploadBytes(i)
  \/ CreatePost(i)
  \/ IgBegin(i)
  \/ IgCreateContainer(i)
  \/ IgWait(i)
  \/ IgPublish(i)
  \/ Search(i)

\* Every pending await settles: the request is answered or fails, the file operation
\* returns or throws, the timer fires, and the event loop then resumes the invocation.
FairSpec == Init /\ [][Next]_vars /\ \A i \in Invocations : WF_vars(InvocationStep(i))

\* ------------------------------------------------- two concurrent invocations

\* The tools and the (valid) inputs of the two invocations the dispatcher runs at
\* once, and a narrower choice of provider answers: a success and a failure per
\* request, the successes distinguishable from one another.
ConcurrentTools == {"text", "image", "video"}

ConcurrentInputs(t) == {in \in InputsOf(t) : SafeParse(t, in) = <<>>}

ConcurrentUserInfoResponses ==
  {Response(200, "application/json; charset=utf-8", "{sub:u1}", Undef),
   Response(401, "application/json; charset=utf-8", "denied", Undef)}

ConcurrentInitResponses(t) ==
  {Response(200, "application/json; charset=utf-8", b, Undef) :
     b \in (IF t = "image"
            THEN {"{value:{uploadUrl:U,image:M}}", "{value:{uploadUrl:U2,image:M2}}"}
            ELSE {"{value:{uploadInstructions:[{uploadUrl:U}],video:M}}",
                  "{value:{uploadInstructions:[{uploadUrl:U2}],video:M2}}"})}
  \cup {Response(500, "application/json; charset=utf-8", "denied", Undef)}

ConcurrentUploadResponses ==
  {Response(201, Undef, "upload body", Undef), Response(500, Undef, "upload body", Undef)}

ConcurrentPostResponses ==
  {Response(201, "application/json; charset=utf-8", "post body", id) :
     id \in {"ABC123", "XYZ789"}}
  \cup {Response(500, "application/json; charset=utf-8", "post body", Undef)}

\* Both invocations have been started by the dispatcher; the token is configured.
InitTwo ==
  \E t \in [Invocations -> ConcurrentTools] :
    \E in \in [Invocations -> UNION {ConcurrentInputs(u) : u \in ConcurrentTools}] :
      /\ \A i \in Invocations : in[i] \in ConcurrentInputs(t[i])
      /\ env = [LINKEDIN_ACCESS_TOKEN |-> "token", INSTAGRAM_ACCESS_TOKEN |-> Undef,
                INSTAGRAM_USER_ID_FOR_POSTING |-> Undef]
      /\ tool = t
      /\ input = in
      /\ pc = [i \in Invocations |-> "start"]
      /\ loc = [i \in Invocations |-> NoLocals]
      /\ calls = [i \in Invocations |-> <<>>]
      /\ fsops = [i \in Invocations |-> <<>>]
      /\ envReads = [i \in Invocations |-> <<>>]
      /\ result = [i \in Invocations |-> NoResult]

\* Each step is one invocation's run up to its next await.
NextTwo ==
  \E i \in Invocations :
    \/ Begin(i)
    \/ GetUserInfoFrom(i, ConcurrentUserInfoResponses)
    \/ StatFile(i)
    \/ InitializeUploadFrom(i, ConcurrentInitResponses(tool[i]))
    \/ ReadFile(i)
    \/ UploadBytesFrom(i, ConcurrentUploadResponses)
    \/ CreatePostFrom(i, ConcurrentPostResponses)

SpecTwo == InitTwo /\ [][NextTwo]_vars

\* ================================================================== claims

Done(i) == pc[i] = "done"

\* An HTTP answer with a 2xx status.
Is2xx(r) == r.kind = "response" /\ r.status \in 200..299

\* The positions of invocation i's requests to endpoint ep.
CallsTo(i, ep) == {k \in DOMAIN calls[i] : calls[i][k].ep = ep}

NonEmpty(v) == v # Undef /\ v # ""

\* The fields of a LinkedIn input that break a listed constraint of its kind.
Offending(t, in) ==
  (IF t \in {"text", "article", "image", "video"} /\ ~NonEmpty(in.commentary)
   THEN {"commentary"} ELSE {})
  \cup (IF t = "article" /\ ~IsUrl(in.url) THEN {"url"} ELSE {})
  \cup (IF t = "article" /\ ~NonEmpty(in.title) THEN {"title"} ELSE {})
  \cup (IF t \in MediaTools /\ ~NonEmpty(in.filePath) THEN {"filePath"} ELSE {})
  \cup (IF t = "poll" /\ ~NonEmpty(in.pollQuestion) THEN {"pollQuestion"} ELSE {})
  \cup (IF t = "poll" /\ (Len(in.pollOptions) \notin 2..4
                          \/ \E k \in DOMAIN in.pollOptions : in.pollOptions[k] = "")
        THEN {"pollOptions"} ELSE {})

\* The configuration an invocation of tool t needs is not all there.
ConfigMissing(t) ==
  \/ t \in LinkedInTools /\ ~NonEmpty(env.LINKEDIN_ACCESS_TOKEN)
  \/ t = "instagram" /\ (~NonEmpty(env.INSTAGRAM_ACCESS_TOKEN)
                         \/ ~NonEmpty(env.INSTAGRAM_USER_ID_FOR_POSTING))

\* The text reports a missing configuration value.
DescribesMissingConfig(text) ==
  \/ Contains(text, "LinkedIn Access Token not configured in environment variables.")
  \/ Contains(text, "Error: INSTAGRAM_ACCESS_TOKEN is not set in environment variables.")
  \/ Contains(text, "Error: INSTAGRAM_USER_ID_FOR_POSTING is not set in environment variables.")

\* C1: a LinkedIn invocation returns success (isError false) only if its last request
\* was the create-post POST to /rest/posts and that request was answered with 2xx.
C1_SuccessImpliesPostAccepted ==
  \A i \in Invocations :
    (tool[i] \in LinkedInTools /\ Done(i) /\ ~result[i].isError)
      => /\ Len(calls[i]) > 0
         /\ calls[i][Len(calls[i])].ep = "posts"
         /\ calls[i][Len(calls[i])].target = "https://api.linkedin.com/rest/posts"
         /\ Is2xx(calls[i][Len(calls[i])].resp)

C1_Witness ==
  \E i \in Invocations :
    /\ tool[i] = "image" /\ Done(i) /\ ~result[i].isError
    /\ calls[i][Len(calls[i])].resp.status = 201

\* C2: image/video: a non-2xx answer to initialize-upload ends the invocation with
\* isError, the status in the message, and neither the PUT nor the create-post issued.
C2_InitRejectedStopsWorkflow ==
  \A i \in Invocations :
    \A k \in CallsTo(i, "initializeUpload") :
      (tool[i] \in MediaTools /\ calls[i][k].resp.kind = "response" /\ ~Is2xx(calls[i][k].resp))
        => /\ CallsTo(i, "upload") = {}
           /\ CallsTo(i, "posts") = {}
           /\ Done(i)
           /\ result[i].isError
           /\ Contains(result[i].text, NumStr(calls[i][k].resp.status))

C2_Witness ==
  \E i \in Invocations :
    /\ tool[i] = "video" /\ Done(i) /\ result[i].isError
    /\ \E k \in CallsTo(i, "initializeUpload") : calls[i][k].resp.status = 401

\* C3: image/video: initialize-upload and the PUT answered 2xx, create-post answered
\* non-2xx: the result is isError and its message names the create-post phase, not the
\* initialize or the upload phase.
C3_PublishFailureNamesPublishPhase ==
  \A i \in Invocations :
    (/\ tool[i] \in MediaTools
     /\ \E k \in CallsTo(i, "initializeUpload") : Is2xx(calls[i][k].resp)
     /\ \E k \in CallsTo(i, "upload") : Is2xx(calls[i][k].resp)
     /\ \E k \in CallsTo(i, "posts") :
          calls[i][k].resp.kind = "response" /\ ~Is2xx(calls[i][k].resp))
      => /\ Done(i)
         /\ result[i].isError
         /\ Contains(result[i].text,
                     IF tool[i] = "image" THEN "Create Image Post failed "
                     ELSE "Create Video Post failed ")
         /\ \A label \in {"Initialize Upload failed ", "Initialize Video Upload failed ",
                          "Image Upload failed ", "Video Upload failed "} :
              ~Contains(result[i].text, label)

C3_Witness ==
  \E i \in Invocations :
    /\ tool[i] = "image" /\ Done(i) /\ result[i].isError
    /\ \E k \in CallsTo(i, "upload") : calls[i][k].resp.status = 200
    /\ \E k \in CallsTo(i, "posts") : calls[i][k].resp.status = 500

\* C4: no retries, fail-fast: an invocation requests each endpoint at most once, and
\* every request that is followed by another one was answered with 2xx.
C4_NoRetryFailFast ==
  \A i \in Invocations :
    /\ \A k1, k2 \in DOMAIN calls[i] : calls[i][k1].ep = calls[i][k2].ep => k1 = k2
    /\ \A k \in DOMAIN calls[i] : k < Len(calls[i]) => Is2xx(calls[i][k].resp)

C4_Witness ==
  \E i \in Invocations :
    /\ Done(i) /\ Len(calls[i]) = 3
    /\ calls[i][3].ep = "upload" /\ calls[i][3].resp.status = 500

\* C5 as stated: with a required configuration value missing the invocation issues no
\* HTTP request and returns isError with a text describing the missing configuration.
C5_Original_MissingConfigDescribed ==
  \A i \in Invocations :
    ConfigMissing(tool[i])
      => /\ calls[i] = <<>>
         /\ Done(i) => (result[i].isError /\ DescribesMissingConfig(result[i].text))

\* C5 (amended): with a required configuration value missing the invocation issues no
\* HTTP request and returns isError; the text describes the missing configuration
\* whenever the input passes the tool's validation (a LinkedIn tool validates first
\* and reports the validation failure instead).
C5_MissingConfigNoHttp ==
  \A i \in Invocations :
    ConfigMissing(tool[i])
      => /\ calls[i] = <<>>
         /\ Done(i) =>
              /\ result[i].isError
              /\ (tool[i] \in LinkedInTools => Offending(tool[i], input[i]) = {})
                   => DescribesMissingConfig(result[i].text)

C5_Witness ==
  \E i \in Invocations :
    /\ tool[i] = "poll" /\ env.LINKEDIN_ACCESS_TOKEN = Undef
    /\ Offending(tool[i], input[i]) = {}
    /\ Done(i) /\ result[i].isError /\ calls[i] = <<>>

\* C6: a LinkedIn input that fails its schema yields isError with a text naming every
\* offending field, and the invocation reads no credential, touches no file and
\* issues no HTTP request.
C6_ValidationShortCircuits ==
  \A i \in Invocations :
    (tool[i] \in LinkedInTools /\ Offending(tool[i], input[i]) # {})
      => /\ envReads[i] = <<>>
         /\ fsops[i] = <<>>
         /\ calls[i] = <<>>
         /\ pc[i] \in {"start", "done"}
         /\ Done(i) =>
              /\ result[i].isError
              /\ result[i].text[1] = "Input validation failed: "
              /\ \A f \in Offending(tool[i], input[i]) : Contains(result[i].text, f)

C6_Witness ==
  \E i \in Invocations :
    /\ tool[i] = "poll" /\ Done(i) /\ result[i].isError
    /\ Len(input[i].pollOptions) = 3 /\ input[i].pollOptions[2] = ""
    /\ input[i].pollQuestion = ""
    /\ Contains(result[i].text, "pollOptions") /\ Contains(result[i].text, "pollQuestion")

\* Some step of invocation i failed: validation, configuration, a local file, an
\* HTTP status, the parsing of an answer, or a request that threw.
StepFailed(i) ==
  \/ tool[i] \in LinkedInTools /\ Offending(tool[i], input[i]) # {}
  \/ envReads[i] # <<>> /\ ConfigMissing(tool[i])
  \/ \E k \in DOMAIN fsops[i] : ~fsops[i][k].ok
  \/ \E k \in DOMAIN calls[i] : ~Is2xx(calls[i][k].resp)
  \/ \E k \in DOMAIN calls[i] :
       /\ calls[i][k].ep \in {"userinfo", "initializeUpload", "ig_media", "ig_media_publish"}
       /\ calls[i][k].resp.body \notin JsonBodies

\* C7: no invocation of a tool function throws; it ends with an envelope, and the
\* envelope has isError whenever a step of the invocation failed.
C7_ErrorsBecomeEnvelopes ==
  \A i \in Invocations :
    /\ pc[i] # "threw"
    /\ Done(i) => (result[i].text # <<>> /\ (StepFailed(i) => result[i].isError))

C7_Witness ==
  \E i \in Invocations :
    /\ tool[i] = "text" /\ Done(i) /\ result[i].isError
    /\ Len(calls[i]) = 1 /\ calls[i][1].resp.kind = "error"
    /\ result[i].text[1] = "An error occurred: "

\* C8 as stated: the PUT counts as successful exactly for 200 and 201; any other
\* status, other 2xx included, ends the invocation in failure with no create-post.
C8_Original_UploadAcceptsOnly200And201 ==
  \A i \in Invocations :
    \A k \in CallsTo(i, "upload") :
      (tool[i] \in MediaTools /\ calls[i][k].resp.kind = "response")
        => IF calls[i][k].resp.status \in {200, 201}
           THEN pc[i] = "post" \/ CallsTo(i, "posts") # {}
           ELSE Done(i) /\ result[i].isError /\ CallsTo(i, "posts") = {}

\* C8 (amended): the PUT counts as successful exactly when its status is 2xx (200 and
\* 201, and also 202 or 204); for every non-2xx status the invocation ends in failure
\* and the create-post request is not issued.
C8_UploadAcceptsAny2xx ==
  \A i \in Invocations :
    \A k \in CallsTo(i, "upload") :
      (tool[i] \in MediaTools /\ calls[i][k].resp.kind = "response")
        => IF calls[i][k].resp.status \in 200..299
           THEN pc[i] = "post" \/ CallsTo(i, "posts") # {}
           ELSE Done(i) /\ result[i].isError /\ CallsTo(i, "posts") = {}

C8_Witness ==
  \E i \in Invocations :
    /\ tool[i] = "image"
    /\ \E k \in CallsTo(i, "upload") : calls[i][k].resp.status = 202
    /\ CallsTo(i, "posts") # {}

\* The 2xx initialize-upload answer r lacks the upload URL or the media URN.
LacksUrlOrUrn(t, r) ==
  IF t = "image"
  THEN r.body \notin {"{value:{uploadUrl:U,image:M}}"}
  ELSE r.body \notin {"{value:{uploadInstructions:[{uploadUrl:U}],video:M}}"}

\* C9: image/video: when the 2xx initialize-upload answer lacks the upload URL or the
\* media URN, no create-post request is issued and success is never returned.
C9_MissingUrlOrUrnFails ==
  \A i \in Invocations :
    \A k \in CallsTo(i, "initializeUpload") :
      (tool[i] \in MediaTools /\ Is2xx(calls[i][k].resp)
       /\ LacksUrlOrUrn(tool[i], calls[i][k].resp))
        => /\ CallsTo(i, "posts") = {}
           /\ ~(Done(i) /\ ~result[i].isError)

\* C10: a 2xx answer to create-post gives success; with a non-empty x-restli-id
\* header v, postId is v and the message contains v; with the header absent, postId
\* is absent and the message is the fixed confirmation alone.
C10_PostIdFromHeader ==
  \A i \in Invocations :
    \A k \in CallsTo(i, "posts") :
      (tool[i] \in LinkedInTools /\ Is2xx(calls[i][k].resp))
        => /\ Done(i)
           /\ ~result[i].isError
           /\ NonEmpty(calls[i][k].resp.restliId)
                => /\ result[i].postId = calls[i][k].resp.restliId
                   /\ Len(result[i].text) = 2
                   /\ result[i].text[2] = calls[i][k].resp.restliId
           /\ calls[i][k].resp.restliId = Undef
                => /\ result[i].postId = Undef
                   /\ result[i].text \in
                        {<<"Successfully posted text!">>, <<"Successfully posted article!">>,
                         <<"Successfully posted image!">>, <<"Successfully posted video!">>,
                         <<"Successfully posted poll!">>}

C10_Witness ==
  \E i \in Invocations :
    /\ tool[i] = "poll" /\ Done(i) /\ ~result[i].isError
    /\ result[i].postId = "ABC123"
    /\ Contains(result[i].text, "ABC123")

\* The requests of invocation i that were answered with a non-2xx status.
RejectedCalls(i) ==
  {k \in DOMAIN calls[i] : calls[i][k].resp.kind = "response" /\ ~Is2xx(calls[i][k].resp)}

\* C11 as stated: for every tool, a request answered with a non-2xx status ends the
\* invocation with a message that embeds that status code and the raw response body.
C11_Original_StatusAndBodyEmbedded ==
  \A i \in Invocations :
    \A k \in RejectedCalls(i) :
      /\ Done(i)
      /\ result[i].isError
      /\ Contains(result[i].text, NumStr(calls[i][k].resp.status))
      /\ Contains(result[i].text, calls[i][k].resp.body)

\* C11 (amended): for the LinkedIn tools (user-info, initialize-upload, PUT and
\* create-post) the failure message embeds the status code and the raw body.  For the
\* two Instagram requests it does so only when the body is not JSON; with a JSON body
\* the message carries the body's error.message, or else the status text, and neither
\* the status code nor the raw body.
C11_StatusAndBodyEmbeddedLinkedIn ==
  \A i \in Invocations :
    \A k \in RejectedCalls(i) :
      /\ Done(i)
      /\ result[i].isError
      /\ (tool[i] \in LinkedInTools \/ calls[i][k].resp.body \notin JsonBodies)
           => /\ Contains(result[i].text, NumStr(calls[i][k].resp.status))
              /\ Contains(result[i].text, calls[i][k].resp.body)
      /\ (tool[i] = "instagram" /\ calls[i][k].resp.body \in JsonBodies)
           => /\ ~Contains(result[i].text, NumStr(calls[i][k].resp.status))
              /\ ~Contains(result[i].text, calls[i][k].resp.body)
              /\ Len(result[i].text) = 2
              /\ result[i].text[2] =
                   (IF calls[i][k].resp.body = "{error:{message:bad token}}" THEN "bad token"
                    ELSE IF calls[i][k].resp.status = 401 THEN "Unauthorized"
                    ELSE "Internal Server Error")

C11_Witness ==
  \E i \in Invocations :
    /\ tool[i] = "video" /\ Done(i) /\ result[i].isError
    /\ \E k \in CallsTo(i, "upload") : calls[i][k].resp.status = 500
    /\ Contains(result[i].text, "500") /\ Contains(result[i].text, "upload body")

\* The user-info answer r is not a 2xx answer of JSON content type carrying a 'sub'.
UserInfoUnusable(r) ==
  \/ ~Is2xx(r)
  \/ r.ctype # "application/json; charset=utf-8"
  \/ r.body # "{sub:u1}"

\* C12: for every LinkedIn tool, an unusable user-info answer ends the invocation with
\* isError and no further request; in every case the lookup is requested at most once
\* and is the first request of the invocation.
C12_UserInfoFirstAndRequired ==
  \A i \in Invocations :
    tool[i] \in LinkedInTools
      => /\ \A k \in CallsTo(i, "userinfo") :
              UserInfoUnusable(calls[i][k].resp)
                => /\ Done(i)
                   /\ result[i].isError
                   /\ Len(calls[i]) = 1
         /\ calls[i] # <<>>
              => /\ calls[i][1].ep = "userinfo"
                 /\ Cardinality(CallsTo(i, "userinfo")) = 1
         /\ pc[i] \in {"stat", "init", "read", "upload", "post"}
              => /\ calls[i] # <<>>
                 /\ ~UserInfoUnusable(calls[i][1].resp)

C12_Witness ==
  \E i \in Invocations :
    /\ tool[i] = "article" /\ Done(i) /\ result[i].isError
    /\ Len(calls[i]) = 1
    /\ calls[i][1].resp.status = 200 /\ calls[i][1].resp.ctype = "text/html"
    /\ calls[i][1].resp.body = "{sub:u1}"

\* The invocation's input was rejected by validation.
RejectedByValidation(i) ==
  /\ Done(i)
  /\ result[i].isError
  /\ result[i].text[1] = "Input validation failed: "
  /\ envReads[i] = <<>>

\* C13: the LinkedIn validators accept every input that meets the listed constraints
\* of its kind, and reject, naming each violated field, every input that breaks one
\* (empty commentary for text/article/image/video, malformed URL, empty title,
\* filePath or pollQuestion, fewer than 2 or more than 4 options, an empty option).
C13_ValidatorsAcceptAndReject ==
  \A i \in Invocations :
    (tool[i] \in LinkedInTools /\ pc[i] # "start")
      => IF Offending(tool[i], input[i]) = {}
         THEN ~RejectedByValidation(i) /\ envReads[i] # <<>>
         ELSE /\ RejectedByValidation(i)
              /\ \A f \in Offending(tool[i], input[i]) : Contains(result[i].text, f)

C13_Witness ==
  \E i \in Invocations :
    /\ tool[i] = "poll" /\ RejectedByValidation(i)
    /\ Len(input[i].pollOptions) = 5
    /\ \A k \in 1..5 : input[i].pollOptions[k] # ""
    /\ input[i].pollQuestion = "Pick one"
    /\ Contains(result[i].text, "Poll must have at most 4 options.")

\* C14 as stated: a poll whose commentary is the empty string is rejected by
\* validation and no create-post call is issued.
C14_Original_EmptyPollCommentaryRejected ==
  \A i \in Invocations :
    (tool[i] = "poll" /\ input[i].commentary = "" /\ pc[i] # "start")
      => /\ RejectedByValidation(i)
         /\ CallsTo(i, "posts") = {}

\* C14 (amended): a poll's commentary may be omitted or be any string, the empty one
\* included: it is never an offending field, a poll with commentary omitted or empty
\* and otherwise valid passes validation, and its create-post body carries the empty
\* string as commentary.
C14_PollCommentaryOptionalAnyString ==
  \A i \in Invocations :
    (tool[i] = "poll" /\ pc[i] # "start")
      => /\ Done(i) => ~Contains(result[i].text, "commentary")
         /\ (input[i].commentary \in {Undef, ""} /\ Offending("poll", input[i]) \subseteq {"commentary"})
              => /\ ~RejectedByValidation(i)
                 /\ \A k \in CallsTo(i, "posts") : calls[i][k].req.commentary = ""

C14_Witness ==
  \E i \in Invocations :
    /\ tool[i] = "poll" /\ input[i].commentary = ""
    /\ Done(i) /\ ~result[i].isError
    /\ \E k \in CallsTo(i, "posts") : calls[i][k].req.commentary = ""

\* C15: a poll's create-post call is the only one of the invocation, and its poll
\* block has the input's question, as many option entries (between 2 and 4) as the
\* input, their texts those of the input in order, and the duration THREE_DAYS.
C15_PollBlockMirrorsInput ==
  \A i \in Invocations :
    tool[i] = "poll"
      => /\ Cardinality(CallsTo(i, "posts")) <= 1
         /\ (Done(i) /\ ~result[i].isError) => Cardinality(CallsTo(i, "posts")) = 1
         /\ \A k \in CallsTo(i, "posts") :
              LET c == calls[i][k].req.content IN
                /\ c.kind = "poll"
                /\ c.question = input[i].pollQuestion
                /\ Len(input[i].pollOptions) \in 2..4
                /\ DOMAIN c.options = 1..Len(input[i].pollOptions)
                /\ \A j \in DOMAIN c.options : c.options[j] = [text |-> input[i].pollOptions[j]]
                /\ c.duration = "THREE_DAYS"

C15_Witness ==
  \E i \in Invocations :
    /\ tool[i] = "poll" /\ Done(i) /\ ~result[i].isError
    /\ input[i].pollQuestion = "Pick one"
    /\ input[i].pollOptions = <<"B", "A", "B">>
    /\ \E k \in CallsTo(i, "posts") :
         /\ Len(calls[i][k].req.content.options) = 3
         /\ calls[i][k].req.content.options[1].text = "B"
         /\ calls[i][k].req.content.options[2].text = "A"

\* The number of results listed in a search tool's text.
ResultCount(text) == Cardinality({k \in DOMAIN text : text[k] = "Result "})

\* C18: whenever the search tool is given maxResults, its text lists at most
\* maxResults results, and what it lists are the first results of the provider's
\* list in their order; without maxResults it lists all of them.
C18_MaxResultsBoundsTheList ==
  \A i \in Invocations :
    (tool[i] = "search" /\ Done(i) /\ ~result[i].isError /\ ~calls[i][1].resp.noResults)
      => LET provided == calls[i][1].resp.results
             n == ResultCount(result[i].text)
         IN /\ n <= Len(provided)
            /\ n > 0 => result[i].text = FormattedResults(SubSeq(provided, 1, n), 1)
            /\ input[i].hasMax => n <= input[i].maxResults
            /\ ~input[i].hasMax => n = Len(provided)

\* C19: with both environment variables set, the Instagram tool given an imageUrl
\* that is not a syntactically valid URL issues no container-create request and
\* returns isError=true.
C19_InvalidImageUrlRejected ==
  \A i \in Invocations :
    (tool[i] = "instagram" /\ ~ConfigMissing("instagram") /\ ~IsUrl(input[i].imageUrl))
      => /\ CallsTo(i, "ig_media") = {}
         /\ Done(i) => result[i].isError

\* The id a container-create answer carries: 2xx, JSON-parseable, non-empty id.
ContainerIdOf(r) ==
  IF r.kind = "response" /\ Is2xx(r) /\ r.body \in {"{id:c1}", "{id:c2}"}
  THEN (IF r.body = "{id:c1}" THEN "c1" ELSE "c2")
  ELSE Undef

\* C20: every Instagram media_publish request follows a container-create request
\* answered OK with a JSON body carrying a non-empty id, and sends that id as
\* creation_id; after any other container-create answer the result is isError and
\* no publish request is issued.
C20_PublishOnlyAfterContainerId ==
  \A i \in Invocations :
    tool[i] = "instagram"
      => /\ \A k \in CallsTo(i, "ig_media_publish") :
              /\ k = 2
              /\ calls[i][1].ep = "ig_media"
              /\ ContainerIdOf(calls[i][1].resp) # Undef
              /\ calls[i][k].req.creation_id = ContainerIdOf(calls[i][1].resp)
         /\ \A k \in CallsTo(i, "ig_media") :
              ContainerIdOf(calls[i][k].resp) = Undef
                => /\ Done(i)
                   /\ result[i].isError
                   /\ CallsTo(i, "ig_media_publish") = {}

C20_Witness ==
  \E i \in Invocations :
    /\ tool[i] = "instagram" /\ Done(i) /\ ~result[i].isError
    /\ Len(calls[i]) = 2
    /\ calls[i][1].resp.body = "{id:c2}"
    /\ calls[i][2].ep = "ig_media_publish"
    /\ calls[i][2].req.creation_id = "c2"

\* The invocation ended in success.
Succeeded(i) == Done(i) /\ ~result[i].isError

\* C16: of two invocations with the same valid request, each one that succeeds has
\* issued its own user-info and create-post requests (and, for media, its own
\* initialize-upload and byte-transfer requests), the create-post answered 2xx; when
\* both succeed two create-post requests were issued in total.
C16_NoDeduplication ==
  (tool[1] = tool[2] /\ input[1] = input[2])
    => /\ \A i \in Invocations :
            Succeeded(i)
              => /\ Cardinality(CallsTo(i, "userinfo")) = 1
                 /\ Cardinality(CallsTo(i, "posts")) = 1
                 /\ \A k \in CallsTo(i, "posts") :
                      /\ k = Len(calls[i])
                      /\ Is2xx(calls[i][k].resp)
                      /\ calls[i][k].req.commentary = input[i].commentary
                 /\ tool[i] \in MediaTools
                      => /\ Cardinality(CallsTo(i, "initializeUpload")) = 1
                         /\ Cardinality(CallsTo(i, "upload")) = 1
       /\ (\A i \in Invocations : Succeeded(i))
            => Cardinality({<<i, k>> \in Invocations \X (1..4) :
                              k \in CallsTo(i, "posts")}) = 2

C16_Witness ==
  /\ tool[1] = "image" /\ tool[2] = "image" /\ input[1] = input[2]
  /\ Succeeded(1) /\ Succeeded(2)
  /\ Len(calls[1]) = 4 /\ Len(calls[2]) = 4
  /\ calls[1][2].ep = "initializeUpload" /\ calls[2][2].ep = "initializeUpload"
  /\ calls[1][4].ep = "posts" /\ calls[2][4].ep = "posts"
  /\ calls[1][4].req = calls[2][4].req

\* The upload target and the media handle an initialize-upload answer carries.
TargetIn(b) ==
  CASE b \in {"{value:{uploadUrl:U,image:M}}",
              "{value:{uploadInstructions:[{uploadUrl:U}],video:M}}"} -> "https://upload.example/U"
    [] b \in {"{value:{uploadUrl:U2,image:M2}}",
              "{value:{uploadInstructions:[{uploadUrl:U2}],video:M2}}"} -> "https://upload.example/U2"
    [] OTHER -> Undef

HandleIn(b) ==
  CASE b = "{value:{uploadUrl:U,image:M}}" -> "urn:li:image:M"
    [] b = "{value:{uploadUrl:U2,image:M2}}" -> "urn:li:image:M2"
    [] b = "{value:{uploadInstructions:[{uploadUrl:U}],video:M}}" -> "urn:li:video:M"
    [] b = "{value:{uploadInstructions:[{uploadUrl:U2}],video:M2}}" -> "urn:li:video:M2"
    [] OTHER -> Undef

\* C17: under every interleaving of two concurrent invocations, a media invocation
\* sends its bytes to the upload target of its own initialize-upload answer and its
\* create-post references the media handle of that same answer; every invocation's
\* result is the one its own last answer determines (success with the post id of its
\* own create-post answer, error otherwise).
C17_ConcurrentInvocationsIndependent ==
  \A i \in Invocations :
    /\ tool[i] \in MediaTools
         => /\ \A k \in CallsTo(i, "upload") :
                 /\ k = 3 /\ calls[i][2].ep = "initializeUpload"
                 /\ calls[i][k].target = TargetIn(calls[i][2].resp.body)
            /\ \A k \in CallsTo(i, "posts") :
                 /\ k = 4 /\ calls[i][2].ep = "initializeUpload"
                 /\ calls[i][k].req.content.id = HandleIn(calls[i][2].resp.body)
    /\ Done(i)
         => LET last == calls[i][Len(calls[i])]
                fsFailed == fsops[i] # <<>> /\ ~fsops[i][Len(fsops[i])].ok
            IN /\ calls[i] # <<>>
               /\ result[i].isError <=> (fsFailed \/ ~Is2xx(last.resp))
               /\ ~result[i].isError
                    => /\ last.ep = "posts"
                       /\ Contains(result[i].text, last.resp.restliId)

C17_Witness ==
  /\ tool[1] = "image" /\ tool[2] = "video"
  /\ Succeeded(1) /\ Succeeded(2)
  /\ calls[1][3].target = "https://upload.example/U2"
  /\ calls[2][3].target = "https://upload.example/U"
  /\ calls[1][4].req.content.id = "urn:li:image:M2"
  /\ calls[2][4].req.content.id = "urn:li:video:M"
  /\ Contains(result[1].text, "XYZ789") /\ Contains(result[2].text, "ABC123")

\* The file operations of invocation i that failed.
FailedFsOps(i) == {k \in DOMAIN fsops[i] : ~fsops[i][k].ok}

\* C21: when the media file cannot be read (image) or stat'ed or read (video), the
\* invocation ends with isError carrying the file system's error message, and neither
\* the byte transfer nor the create-post request is issued; a video's stat comes
\* before its initialize-upload request, so after a failed stat that request is not
\* issued either.
C21_LocalFileFailureStopsWorkflow ==
  \A i \in Invocations :
    tool[i] \in MediaTools
      => /\ \A k \in FailedFsOps(i) :
              /\ k = Len(fsops[i])
              /\ Done(i)
              /\ result[i].isError
              /\ Contains(result[i].text, "ENOENT: no such file or directory, ")
              /\ Contains(result[i].text, input[i].filePath)
              /\ CallsTo(i, "upload") = {}
              /\ CallsTo(i, "posts") = {}
              /\ fsops[i][k].op = "stat" => CallsTo(i, "initializeUpload") = {}
         /\ (tool[i] = "video" /\ CallsTo(i, "initializeUpload") # {})
              => /\ fsops[i] # <<>>
                 /\ fsops[i][1].op = "stat" /\ fsops[i][1].ok
         /\ CallsTo(i, "upload") # {}
              => \E k \in DOMAIN fsops[i] : fsops[i][k].op = "readFile" /\ fsops[i][k].ok

C21_Witness ==
  \E i \in Invocations :
    /\ tool[i] = "video" /\ Done(i) /\ result[i].isError
    /\ Len(fsops[i]) = 2
    /\ fsops[i][1].op = "stat" /\ fsops[i][1].ok
    /\ fsops[i][2].op = "readFile" /\ ~fsops[i][2].ok
    /\ Len(calls[i]) = 2 /\ calls[i][2].ep = "initializeUpload"
    /\ Contains(result[i].text, "ENOENT: no such file or directory, ")

\* The most HTTP requests an invocation of tool t issues.
MaxHttpCalls(t) ==
  CASE t \in {"text", "article", "poll"} -> 2
    [] t \in MediaTools -> 4
    [] t = "instagram" -> 2
    [] OTHER -> 1

\* The outcome of a finished invocation is an envelope, of success or isError.
TerminalOutcome(i) ==
  /\ result[i] # NoResult
  /\ result[i].isError \in BOOLEAN
  /\ result[i].text # <<>>

\* C22: every started invocation eventually ends, given that every pending external
\* call settles, in a success or isError envelope; it never has issued more than
\* 2 HTTP requests (text, article, poll), 4 (image, video) or 2 (Instagram), and has
\* no outcome before it ends.
C22_TerminatesWithinCallBounds ==
  /\ [](\A i \in Invocations :
          /\ Len(calls[i]) <= MaxHttpCalls(tool[i])
          /\ Done(i) <=> TerminalOutcome(i)
          /\ ~Done(i) => result[i] = NoResult)
  /\ \A i \in Invocations : (pc[i] = "start") ~> Done(i)

C22_Witness ==
  \E i \in Invocations :
    /\ tool[i] = "video" /\ Done(i) /\ TerminalOutcome(i) /\ result[i].isError
    /\ Len(calls[i]) = 4 /\ Len(fsops[i]) = 2
    /\ calls[i][4].ep = "posts"

====
